---- MODULE Spec2Model ----
(***************************************************************************)
(* Model of the DPD Computation Engine server (python/dpdce.py): the       *)
(* control thread serving YAML-RPC requests, the engine_worker thread      *)
(* executing commands, the lock-guarded settings/results records and the   *)
(* single-slot command queue between them.                                 *)
(***************************************************************************)
EXTENDS Integers, Sequences, FiniteSets, TLC

VARIABLES
    settings,       \* dict settings (dpdce.py:131), shared
    results,        \* dict results (dpdce.py:137), shared
    lock,           \* Lock() (dpdce.py:144): TRUE while held
    command_queue,  \* Queue(maxsize=1) (dpdce.py:145)
    wpc,            \* position of engine_worker
    i,              \* engine_worker loop index
    summary,        \* engine_worker local summary
    agc_success,    \* engine_worker local agc_success
    rx_median,      \* engine_worker local rx_median (line 174)
    tx_median,      \* engine_worker local tx_median (line 174)
    cpc,            \* position of the control (main) thread
    method,         \* control thread local method (line 197) of the request
                    \* being dispatched; "none" once its handler has finished
    response,       \* response handed to cmd_socket for the current request
    hw,             \* what the hardware adapter (adapt) currently reports
    agc_log,        \* outcomes of the agc.run() calls of the current calibrate
    state,          \* adaptation cycle: state (line 263)
    cycle_i,        \* adaptation cycle: iteration counter i (line 264)
    n_meas,         \* adaptation cycle: n_meas (line 265); 0 stands for None
    extStat_n_meas, \* adaptation cycle: extStat.n_meas, the accumulated count
    data,           \* adaptation cycle: tx, rx, phase_diff (line 276):
                    \* "undefined", "none" (some of them None) or "data"
    dpddata,        \* adaptation cycle: dpddata (lines 113, 293), as the
                    \* iteration that trained it; 0 is the startup value
    predistorter,   \* what adapt.set_predistorter() last pushed (line 299)
    cycle_log       \* adaptation cycle: the last logging call, as the
                    \* message and the iteration number it carries

cyclevars == <<state, cycle_i, n_meas, extStat_n_meas, data, dpddata,
               predistorter, cycle_log>>

servervars == <<settings, results, lock, command_queue, wpc, i, summary,
                agc_success, rx_median, tx_median, cpc, method, response, hw,
                agc_log>>

vars == <<settings, results, lock, command_queue, wpc, i, summary,
          agc_success, rx_median, tx_median, cpc, method, response, hw,
          agc_log, state, cycle_i, n_meas, extStat_n_meas, data, dpddata,
          predistorter, cycle_log>>

wvars == <<wpc, i, summary, agc_success, rx_median, tx_median>>
cvars == <<cpc, method, response>>
envvars == <<hw, agc_log>>

----------------------------------------------------------------------------
(* Bounds of the model: the values the collaborators may return.           *)
MaxGain == 1
MaxMedian == 1

(* What the hardware adapter may report after an AGC round: the AGC has    *)
(* set some RX gain, and the digital gain is no longer the one read at     *)
(* startup and differs from the RX gain.                                   *)
HwReports == { [rx_gain |-> g, digital_gain |-> g + 1] : g \in 0..MaxGain }

(* Measurement bundles meas.get_samples() may return; only the medians are *)
(* used by the engine.  The TX median of a bundle differs from its RX      *)
(* median.                                                                 *)
Measurements == { [rx_median |-> m, tx_median |-> 2 * m] : m \in 1..MaxMedian }

(* What agc.run() may return: (success, summary text), the text given as a *)
(* sequence of characters.                                                 *)
AgcOutcomes == { <<TRUE, <<"o", "k">> >>,
                 <<FALSE, <<"l", "o", "w", "\n", "n", "o">> >> }

(* Program constants.                                                      *)
N_ITER == 5
QueueMaxSize == 1

(* Values read from the hardware at startup (lines 110-113).               *)
BootTxGain == 0
BootRxGain == 0
BootDigitalGain == 0
BootDpdData == <<"poly", <<1>>, <<0>>>>

KnownMethods == {"trigger_run", "reset", "set_setting", "get_settings",
                 "get_results", "calibrate"}
QueueingMethods == {"trigger_run", "reset", "calibrate"}
Methods == KnownMethods \cup {"bogus"}

----------------------------------------------------------------------------
(* Pure helpers.                                                           *)

(* "calibration run {}:".format(i)  (line 166)                             *)
RunLabel(n) == "calibration run " \o ToString(n) \o ":"

(* str.split("\n") on a text given as a sequence of characters.            *)
RECURSIVE SplitAcc(_, _)
SplitAcc(cs, cur) ==
    IF cs = <<>> THEN <<cur>>
    ELSE IF Head(cs) = "\n" THEN <<cur>> \o SplitAcc(Tail(cs), "")
    ELSE SplitAcc(Tail(cs), cur \o Head(cs))

Split(cs) == SplitAcc(cs, "")

(* Variant of Progress dividing by one round too few.                      *)
ProgressOffByOne(n) == ((n + 1) * 100) \div (N_ITER - 1)

(* int((i + 1) * 100/N_ITER)  (line 169)                                   *)
Progress(n) == ((n + 1) * 100) \div N_ITER

(* No response is being sent.                                              *)
NoResponse == [kind |-> "none", payload |-> <<>>]

(* Variant of QueueFull for a queue one slot larger.                       *)
QueueFullAtTwo(q) == Len(q) >= QueueMaxSize + 1

(* Queue.full()                                                            *)
QueueFull(q) == Len(q) >= QueueMaxSize

(* Variant of LockFree in which acquiring never waits.                     *)
LockNeverBlocks == TRUE

(* Lock.acquire() can return                                               *)
LockFree == lock = FALSE

----------------------------------------------------------------------------
Init ==
    /\ hw = [rx_gain |-> BootRxGain, digital_gain |-> BootDigitalGain]
    /\ settings = [rx_gain |-> BootRxGain, tx_gain |-> BootTxGain,
                   digital_gain |-> BootDigitalGain, dpddata |-> BootDpdData]
    /\ results = [tx_median |-> 0, rx_median |-> 0, state |-> "Idle",
                  stateprogress |-> 0,
                  summary |-> <<"DPD has not been calibrated yet">>]
    /\ lock = FALSE
    /\ command_queue = <<>>
    /\ wpc = "get"
    /\ i = 0
    /\ summary = <<>>
    /\ agc_success = TRUE
    /\ rx_median = 0
    /\ tx_median = 0
    /\ cpc = "recv"
    /\ method = "none"
    /\ response = NoResponse
    /\ agc_log = <<>>
    /\ state = "report"
    /\ cycle_i = 0
    /\ n_meas = 0
    /\ extStat_n_meas = 0
    /\ data = "undefined"
    /\ dpddata = 0
    /\ predistorter = 0
    /\ cycle_log = <<"none", 0>>

----------------------------------------------------------------------------
(* engine_worker (lines 150-188)                                           *)

(* Variant of WorkerGet in which a reset command rewrites settings.        *)
WorkerGetHandlesReset ==
    /\ wpc = "get"
    /\ command_queue # <<>>
    /\ command_queue' = Tail(command_queue)
    /\ wpc' = CASE Head(command_queue) = "quit" -> "t_lock"
                [] Head(command_queue) = "calibrate" -> "c_lock1"
                [] OTHER -> "get"
    /\ settings' = IF Head(command_queue) = "reset"
                     THEN [settings EXCEPT !.rx_gain = 0, !.dpddata = <<>>]
                     ELSE settings
    /\ UNCHANGED <<results, lock, i, summary, agc_success,
                   rx_median, tx_median, cvars, envvars>>
    /\ UNCHANGED cyclevars

(* cmd = command_queue.get() and the dispatch on cmd (lines 153-157).      *)
WorkerGet ==
    /\ wpc = "get"
    /\ command_queue # <<>>
    /\ command_queue' = Tail(command_queue)
    /\ wpc' = CASE Head(command_queue) = "quit" -> "t_lock"
                [] Head(command_queue) = "calibrate" -> "c_lock1"
                [] OTHER -> "get"
    /\ UNCHANGED <<settings, results, lock, i, summary, agc_success,
                   rx_median, tx_median, cvars, envvars>>
    /\ UNCHANGED cyclevars

(* with lock: (lines 158, 168, 176, 186)                                   *)
WorkerLock ==
    /\ wpc \in {"c_lock1", "c_lock2", "c_lock3", "t_lock"}
    /\ LockFree
    /\ lock' = TRUE
    /\ wpc' = CASE wpc = "c_lock1" -> "c_state"
                [] wpc = "c_lock2" -> "c_prog"
                [] wpc = "c_lock3" -> "f_rx"
                [] wpc = "t_lock" -> "t_state"
    /\ UNCHANGED <<settings, results, command_queue, i, summary,
                   agc_success, rx_median, tx_median, cvars, envvars>>
    /\ UNCHANGED cyclevars

(* results['state'] = 'RX Gain Calibration'  (line 159)                    *)
CalSetState ==
    /\ wpc = "c_state"
    /\ results' = [results EXCEPT !.state = "RX Gain Calibration"]
    /\ wpc' = "c_prog0"
    /\ UNCHANGED <<settings, lock, command_queue, i, summary,
                   agc_success, rx_median, tx_median, cvars, envvars>>
    /\ UNCHANGED cyclevars

(* results['stateprogress'] = 0, leaving the with block; summary = [],     *)
(* entering the for loop (lines 160-164).                                  *)
CalResetProgress ==
    /\ wpc = "c_prog0"
    /\ results' = [results EXCEPT !.stateprogress = 0]
    /\ lock' = FALSE
    /\ summary' = <<>>
    /\ i' = 0
    /\ agc_log' = <<>>
    /\ wpc' = "agc"
    /\ UNCHANGED <<settings, command_queue, agc_success, rx_median,
                   tx_median, cvars, hw>>
    /\ UNCHANGED cyclevars

(* agc_success, agc_summary = agc.run(); summary = [...]  (lines 165-166). *)
(* The AGC changes the gains the hardware reports.                         *)
AgcRun ==
    /\ wpc = "agc"
    /\ \E out \in AgcOutcomes, h \in HwReports :
        /\ agc_success' = out[1]
        /\ summary' = <<RunLabel(i)>> \o Split(out[2])
        /\ hw' = h
        /\ agc_log' = Append(agc_log, out[1])
    /\ wpc' = "c_lock2"
    /\ UNCHANGED <<settings, results, lock, command_queue, i,
                   rx_median, tx_median, cvars>>
    /\ UNCHANGED cyclevars

(* Variant of CalSetProgress without the break on a failed round.          *)
CalSetProgressNoBreak ==
    /\ wpc = "c_prog"
    /\ results' = [results EXCEPT !.stateprogress = Progress(i)]
    /\ lock' = FALSE
    /\ IF i + 1 >= N_ITER
         THEN wpc' = "meas" /\ i' = i
         ELSE wpc' = "agc" /\ i' = i + 1
    /\ UNCHANGED <<settings, command_queue, summary, agc_success,
                   rx_median, tx_median, cvars, envvars>>
    /\ UNCHANGED cyclevars

(* Variant of CalSetProgress that looks into the queue after each round    *)
(* and abandons the calibration when 'quit' is waiting there.              *)
CalSetProgressChecksQuit ==
    /\ wpc = "c_prog"
    /\ results' = [results EXCEPT !.stateprogress = Progress(i)]
    /\ lock' = FALSE
    /\ IF command_queue = <<"quit">>
         THEN wpc' = "t_lock" /\ i' = i /\ command_queue' = <<>>
         ELSE /\ command_queue' = command_queue
              /\ IF ~agc_success \/ i + 1 >= N_ITER
                   THEN wpc' = "meas" /\ i' = i
                   ELSE wpc' = "agc" /\ i' = i + 1
    /\ UNCHANGED <<settings, summary, agc_success,
                   rx_median, tx_median, cvars, envvars>>
    /\ UNCHANGED cyclevars

(* results['stateprogress'] = int((i + 1) * 100/N_ITER), leaving the with  *)
(* block; break on failure, else the next round (lines 169-172, 164).      *)
CalSetProgress ==
    /\ wpc = "c_prog"
    /\ results' = [results EXCEPT !.stateprogress = Progress(i)]
    /\ lock' = FALSE
    /\ IF ~agc_success \/ i + 1 >= N_ITER
         THEN wpc' = "meas" /\ i' = i
         ELSE wpc' = "agc" /\ i' = i + 1
    /\ UNCHANGED <<settings, command_queue, summary, agc_success,
                   rx_median, tx_median, cvars, envvars>>
    /\ UNCHANGED cyclevars

(* ..., rx_median, tx_median = meas.get_samples()  (line 174)              *)
CalMeasure ==
    /\ wpc = "meas"
    /\ \E s \in Measurements :
        /\ rx_median' = s.rx_median
        /\ tx_median' = s.tx_median
    /\ wpc' = "c_lock3"
    /\ UNCHANGED <<settings, results, lock, command_queue, i, summary,
                   agc_success, cvars, envvars>>
    /\ UNCHANGED cyclevars

(* settings['rx_gain'] = adapt.get_rxgain()  (line 177)                    *)
FinalRxGain ==
    /\ wpc = "f_rx"
    /\ settings' = [settings EXCEPT !.rx_gain = hw.rx_gain]
    /\ wpc' = "f_dig"
    /\ UNCHANGED <<results, lock, command_queue, i, summary,
                   agc_success, rx_median, tx_median, cvars, envvars>>
    /\ UNCHANGED cyclevars

(* Variant of FinalDigitalGain storing the RX gain.                        *)
FinalDigitalGainFromRx ==
    /\ wpc = "f_dig"
    /\ settings' = [settings EXCEPT !.digital_gain = hw.rx_gain]
    /\ wpc' = "f_txm"
    /\ UNCHANGED <<results, lock, command_queue, i, summary,
                   agc_success, rx_median, tx_median, cvars, envvars>>
    /\ UNCHANGED cyclevars

(* settings['digital_gain'] = adapt.get_digital_gain()  (line 178)         *)
FinalDigitalGain ==
    /\ wpc = "f_dig"
    /\ settings' = [settings EXCEPT !.digital_gain = hw.digital_gain]
    /\ wpc' = "f_txm"
    /\ UNCHANGED <<results, lock, command_queue, i, summary,
                   agc_success, rx_median, tx_median, cvars, envvars>>
    /\ UNCHANGED cyclevars

(* results['tx_median'] = float(tx_median)  (line 179)                     *)
FinalTxMedian ==
    /\ wpc = "f_txm"
    /\ results' = [results EXCEPT !.tx_median = tx_median]
    /\ wpc' = "f_rxm"
    /\ UNCHANGED <<settings, lock, command_queue, i, summary,
                   agc_success, rx_median, tx_median, cvars, envvars>>
    /\ UNCHANGED cyclevars

(* results['rx_median'] = float(rx_median)  (line 180)                     *)
FinalRxMedian ==
    /\ wpc = "f_rxm"
    /\ results' = [results EXCEPT !.rx_median = rx_median]
    /\ wpc' = "f_state"
    /\ UNCHANGED <<settings, lock, command_queue, i, summary,
                   agc_success, rx_median, tx_median, cvars, envvars>>
    /\ UNCHANGED cyclevars

(* results['state'] = 'Idle'  (line 181)                                   *)
FinalState ==
    /\ wpc = "f_state"
    /\ results' = [results EXCEPT !.state = "Idle"]
    /\ wpc' = "f_prog"
    /\ UNCHANGED <<settings, lock, command_queue, i, summary,
                   agc_success, rx_median, tx_median, cvars, envvars>>
    /\ UNCHANGED cyclevars

(* Variant of FinalProgress leaving stateprogress as it is.                *)
FinalProgressKept ==
    /\ wpc = "f_prog"
    /\ wpc' = "f_summary"
    /\ UNCHANGED <<settings, results, lock, command_queue, i, summary,
                   agc_success, rx_median, tx_median, cvars, envvars>>
    /\ UNCHANGED cyclevars

(* results['stateprogress'] = 0  (line 182)                                *)
FinalProgress ==
    /\ wpc = "f_prog"
    /\ results' = [results EXCEPT !.stateprogress = 0]
    /\ wpc' = "f_summary"
    /\ UNCHANGED <<settings, lock, command_queue, i, summary,
                   agc_success, rx_median, tx_median, cvars, envvars>>
    /\ UNCHANGED cyclevars

(* Variant of FinalSummary storing the summary without its first line.     *)
FinalSummaryNoHeader ==
    /\ wpc = "f_summary"
    /\ results' = [results EXCEPT !.summary = summary]
    /\ lock' = FALSE
    /\ wpc' = "get"
    /\ UNCHANGED <<settings, command_queue, i, summary, agc_success,
                   rx_median, tx_median, cvars, envvars>>
    /\ UNCHANGED cyclevars

(* results['summary'] = ["Calibration was done:"] + summary, leaving the   *)
(* with block, back to the top of the while loop (line 183).               *)
FinalSummary ==
    /\ wpc = "f_summary"
    /\ results' = [results EXCEPT
                     !.summary = <<"Calibration was done:">> \o summary]
    /\ lock' = FALSE
    /\ wpc' = "get"
    /\ UNCHANGED <<settings, command_queue, i, summary, agc_success,
                   rx_median, tx_median, cvars, envvars>>
    /\ UNCHANGED cyclevars

(* The locals of a calibration that an exception abandons: none of them is *)
(* read again before the thread ends.                                      *)
DropLocals ==
    /\ i' = 0
    /\ summary' = <<>>
    /\ agc_success' = TRUE
    /\ rx_median' = 0
    /\ tx_median' = 0
    /\ agc_log' = <<>>

(* Variant of WorkerRaise in which the exception skips the finally clause. *)
WorkerRaiseNoFinally ==
    /\ wpc \in {"agc", "meas"}
    /\ wpc' = "done"
    /\ DropLocals
    /\ UNCHANGED <<settings, results, lock, command_queue, cvars, hw>>
    /\ UNCHANGED cyclevars

(* agc.run() or meas.get_samples() raises: the exception leaves the while  *)
(* loop and reaches the finally clause (lines 165, 174, 185).              *)
WorkerRaise ==
    /\ wpc \in {"agc", "meas"}
    /\ wpc' = "t_lock"
    /\ DropLocals
    /\ UNCHANGED <<settings, results, lock, command_queue, cvars, hw>>
    /\ UNCHANGED cyclevars

(* adapt.get_rxgain() or adapt.get_digital_gain() raises inside the with   *)
(* block: the lock is released on the way out (lines 177-178, 185).        *)
WorkerRaiseLocked ==
    /\ wpc \in {"f_rx", "f_dig"}
    /\ lock' = FALSE
    /\ wpc' = "t_lock"
    /\ DropLocals
    /\ UNCHANGED <<settings, results, command_queue, cvars, hw>>
    /\ UNCHANGED cyclevars

(* results['state'] = 'Terminated'  (line 187)                             *)
TermState ==
    /\ wpc = "t_state"
    /\ results' = [results EXCEPT !.state = "Terminated"]
    /\ wpc' = "t_prog"
    /\ UNCHANGED <<settings, lock, command_queue, i, summary,
                   agc_success, rx_median, tx_median, cvars, envvars>>
    /\ UNCHANGED cyclevars

(* Variant of TermProgress for a try/finally placed inside the while loop: *)
(* after the finally clause the worker goes back to command_queue.get().   *)
TermProgressLoops ==
    /\ wpc = "t_prog"
    /\ results' = [results EXCEPT !.stateprogress = 0]
    /\ lock' = FALSE
    /\ wpc' = "get"
    /\ UNCHANGED <<settings, command_queue, i, summary, agc_success,
                   rx_median, tx_median, cvars, envvars>>
    /\ UNCHANGED cyclevars

(* results['stateprogress'] = 0, leaving the with block; the thread ends   *)
(* (line 188).                                                             *)
TermProgress ==
    /\ wpc = "t_prog"
    /\ results' = [results EXCEPT !.stateprogress = 0]
    /\ lock' = FALSE
    /\ wpc' = "done"
    /\ UNCHANGED <<settings, command_queue, i, summary, agc_success,
                   rx_median, tx_median, cvars, envvars>>
    /\ UNCHANGED cyclevars

WorkerNext ==
    \/ WorkerGet
    \/ WorkerLock
    \/ CalSetState
    \/ CalResetProgress
    \/ AgcRun
    \/ CalSetProgress
    \/ CalMeasure
    \/ FinalRxGain
    \/ FinalDigitalGain
    \/ FinalTxMedian
    \/ FinalRxMedian
    \/ FinalState
    \/ FinalProgress
    \/ FinalSummary
    \/ WorkerRaise
    \/ WorkerRaiseLocked
    \/ TermState
    \/ TermProgress

----------------------------------------------------------------------------
(* Control thread (lines 194-234)                                          *)

(* receive_request() returns a request; dispatch on method up to the first *)
(* blocking call (lines 197, 210-230).                                     *)
\* Variant of CtlRequest whose default branch forwards the method name to the
\* worker instead of answering with an error response.
CtlRequestEnqueuesUnknown ==
    /\ cpc = "recv"
    /\ \E m \in Methods :
        /\ method' = IF m = "set_setting" THEN "none" ELSE m
        /\ cpc' = CASE m = "get_settings" -> "gs_lock"
                    [] m = "get_results" -> "gr_lock"
                    [] m = "set_setting" -> "recv"
                    [] OTHER -> "put"
        /\ response' = NoResponse
    /\ UNCHANGED <<settings, results, lock, command_queue, wvars, envvars>>
    /\ UNCHANGED cyclevars

CtlRequest ==
    /\ cpc = "recv"
    /\ \E m \in Methods :
        /\ method' = IF m = "set_setting" THEN "none" ELSE m
        /\ cpc' = CASE m \in QueueingMethods -> "put"
                    [] m = "get_settings" -> "gs_lock"
                    [] m = "get_results" -> "gr_lock"
                    [] m = "set_setting" -> "recv"
                    [] OTHER -> "sent"
        /\ response' = IF m \in KnownMethods
                         THEN NoResponse
                         ELSE [kind |-> "error",
                               payload |-> "request not understood"]
    /\ UNCHANGED <<settings, results, lock, command_queue, wvars, envvars>>
    /\ UNCHANGED cyclevars

(* receive_request() raises ValueError: logged, continue (lines 198-200).  *)
CtlValueError ==
    /\ cpc = "recv"
    /\ UNCHANGED vars

(* receive_request() raises TimeoutError: continue (lines 201-202).        *)
CtlTimeout ==
    /\ cpc = "recv"
    /\ UNCHANGED vars

(* receive_request() raises KeyboardInterrupt or anything else: break,     *)
(* which reaches the finally clause (lines 203-208, 231).                  *)
CtlBreak ==
    /\ cpc = "recv"
    /\ cpc' = "quit_put"
    /\ UNCHANGED <<settings, results, lock, command_queue, wvars, method,
                   response, envvars>>
    /\ UNCHANGED cyclevars

(* Variant of CtlPut that gives up instead of waiting when the slot is     *)
(* taken (a put_nowait whose queue.Full is swallowed).                     *)
CtlPutNoWait ==
    /\ cpc = "put"
    /\ command_queue' = IF QueueFull(command_queue)
                          THEN command_queue
                          ELSE Append(command_queue, method)
    /\ method' = "none"
    /\ cpc' = "recv"
    /\ UNCHANGED <<settings, results, lock, wvars, response, envvars>>
    /\ UNCHANGED cyclevars

(* command_queue.put(method) returns (lines 212, 215, 228).                *)
CtlPut ==
    /\ cpc = "put"
    /\ ~QueueFull(command_queue)
    /\ command_queue' = Append(command_queue, method)
    /\ method' = "none"
    /\ cpc' = "recv"
    /\ UNCHANGED <<settings, results, lock, wvars, response, envvars>>
    /\ UNCHANGED cyclevars

(* with lock: (lines 221, 224)                                             *)
CtlLock ==
    /\ cpc \in {"gs_lock", "gr_lock"}
    /\ LockFree
    /\ lock' = TRUE
    /\ cpc' = IF cpc = "gs_lock" THEN "gs_send" ELSE "gr_send"
    /\ UNCHANGED <<settings, results, command_queue, wvars, method,
                   response, envvars>>
    /\ UNCHANGED cyclevars

(* send_success_response(addr, msg_id, settings)  (line 222)               *)
CtlSendSettings ==
    /\ cpc = "gs_send"
    /\ response' = [kind |-> "settings", payload |-> settings]
    /\ cpc' = "sent_locked"
    /\ UNCHANGED <<settings, results, lock, command_queue, wvars, method,
                   envvars>>
    /\ UNCHANGED cyclevars

(* send_success_response(addr, msg_id, results)  (line 225)                *)
CtlSendResults ==
    /\ cpc = "gr_send"
    /\ response' = [kind |-> "results", payload |-> results]
    /\ cpc' = "sent_locked"
    /\ UNCHANGED <<settings, results, lock, command_queue, wvars, method,
                   envvars>>
    /\ UNCHANGED cyclevars

(* Leaving the with block after a success response; the request is served  *)
(* and the loop goes back to receive_request() (lines 222, 225, 195).      *)
CtlUnlock ==
    /\ cpc = "sent_locked"
    /\ lock' = FALSE
    /\ response' = NoResponse
    /\ method' = "none"
    /\ cpc' = "recv"
    /\ UNCHANGED <<settings, results, command_queue, wvars, envvars>>
    /\ UNCHANGED cyclevars

(* After the error response the loop goes back to receive_request()        *)
(* (lines 230, 195).                                                       *)
CtlLoop ==
    /\ cpc = "sent"
    /\ response' = NoResponse
    /\ method' = "none"
    /\ cpc' = "recv"
    /\ UNCHANGED <<settings, results, lock, command_queue, wvars, envvars>>
    /\ UNCHANGED cyclevars

(* command_queue.put('quit') returns (line 232).                           *)
CtlQuitPut ==
    /\ cpc = "quit_put"
    /\ ~QueueFull(command_queue)
    /\ command_queue' = Append(command_queue, "quit")
    /\ cpc' = "join"
    /\ UNCHANGED <<settings, results, lock, wvars, method, response,
                   envvars>>
    /\ UNCHANGED cyclevars

(* engine.join() returns (line 234).                                       *)
CtlJoin ==
    /\ cpc = "join"
    /\ wpc = "done"
    /\ cpc' = "exited"
    /\ UNCHANGED <<settings, results, lock, command_queue, wvars, method,
                   response, envvars>>
    /\ UNCHANGED cyclevars

ControlNext ==
    \/ CtlRequest
    \/ CtlValueError
    \/ CtlTimeout
    \/ CtlBreak
    \/ CtlPut
    \/ CtlLock
    \/ CtlSendSettings
    \/ CtlSendResults
    \/ CtlUnlock
    \/ CtlLoop
    \/ CtlQuitPut
    \/ CtlJoin

----------------------------------------------------------------------------
Next == WorkerNext \/ ControlNext

Spec == Init /\ [][Next]_vars

(* The steps the control thread takes by itself, as opposed to the events  *)
(* receive_request() delivers.                                             *)
ControlRun ==
    \/ CtlPut
    \/ CtlLock
    \/ CtlSendSettings
    \/ CtlSendResults
    \/ CtlUnlock
    \/ CtlLoop
    \/ CtlQuitPut
    \/ CtlJoin

(* Both threads are scheduled: a thread that can run does run, and a       *)
(* worker that waits for the lock gets it when the control thread, which   *)
(* blocks in receive_request() between requests, keeps releasing it.       *)
FairSpec ==
    /\ Spec
    /\ WF_vars(WorkerNext)
    /\ SF_vars(WorkerLock)
    /\ WF_vars(ControlRun)

----------------------------------------------------------------------------
(* Where the threads are.                                                  *)

(* engine_worker is inside one of its with lock: blocks.                   *)
WorkerInCS ==
    wpc \in {"c_state", "c_prog0", "c_prog", "f_rx", "f_dig", "f_txm",
             "f_rxm", "f_state", "f_prog", "f_summary", "t_state", "t_prog"}

(* The control thread is inside one of its with lock: blocks.              *)
ControlInCS == cpc \in {"gs_send", "gr_send", "sent_locked"}

BootSettings ==
    [rx_gain |-> BootRxGain, tx_gain |-> BootTxGain,
     digital_gain |-> BootDigitalGain, dpddata |-> BootDpdData]

----------------------------------------------------------------------------
(* C1: every stateprogress a get_results response carries lies in 0..100,  *)
(* and while results.state stays 'RX Gain Calibration' (one run)           *)
(* stateprogress never decreases, so no two observations of one run do.    *)
C1_ProgressBounded ==
    /\ [](response.kind = "results"
            => response.payload.stateprogress \in 0..100)
    /\ [][(results.state = "RX Gain Calibration"
            /\ results'.state = "RX Gain Calibration")
           => results'.stateprogress >= results.stateprogress]_vars

(* A get_results response taken in the middle of a second calibration.     *)
C1_Witness ==
    /\ response.kind = "results"
    /\ response.payload.state = "RX Gain Calibration"
    /\ response.payload.stateprogress = 60
    /\ response.payload.summary[1] = "Calibration was done:"

(* C2: when engine_worker has ended, by 'quit' or by an exception, the     *)
(* record reads state 'Terminated' with stateprogress 0; and a 'quit' in   *)
(* the command queue is eventually followed by state 'Terminated'.         *)
C2_EndsTerminated ==
    /\ [](wpc = "done"
            => results.state = "Terminated" /\ results.stateprogress = 0)
    /\ ((command_queue # <<>> /\ Head(command_queue) = "quit")
            ~> (results.state = "Terminated"))

(* The worker was ended by an exception during a calibration (no 'quit'    *)
(* had been sent), and the 'quit' sent afterwards is still in the queue.   *)
C2_Witness ==
    /\ wpc = "done"
    /\ cpc = "join"
    /\ command_queue = <<"quit">>
    /\ results.state = "Terminated"
    /\ results.stateprogress = 0

(* C3: the shutdown sequence never gets stuck on the enqueue of 'quit':    *)
(* the control thread is never blocked in command_queue.put('quit') on a   *)
(* full queue that no worker will ever drain.                              *)
C3_ShutdownNeverStuck ==
    ~(cpc = "quit_put" /\ QueueFull(command_queue) /\ wpc = "done")

(* C4: the command queue never holds more than one command; a submission   *)
(* completes only when no command is pending; and when the worker starts   *)
(* executing a command it has already taken it out of the queue, so the    *)
(* slot is free while the command executes.                                *)
C4_SingleSlot ==
    /\ [](Len(command_queue) <= 1)
    /\ [][Len(command_queue') > Len(command_queue)
           => command_queue = <<>>]_vars
    /\ [][(wpc = "get" /\ wpc' # "get") => command_queue' = <<>>]_vars
    /\ []((cpc \in {"put", "quit_put"} /\ command_queue # <<>>)
            => ~ENABLED (CtlPut \/ CtlQuitPut))
    /\ []((cpc \in {"put", "quit_put"} /\ command_queue = <<>>)
            => ENABLED (CtlPut \/ CtlQuitPut))

(* While the worker is still executing a calibration, a second command has *)
(* been accepted into the queue and a third submission is blocked.         *)
C4_Witness ==
    /\ wpc = "agc"
    /\ command_queue = <<"calibrate">>
    /\ cpc = "put"

(* C5: settings and results change only in steps of the worker inside its  *)
(* critical sections, a response is built only inside a critical section   *)
(* of the control thread and equals the record at that moment, the two     *)
(* threads are never inside their critical sections together, and no       *)
(* response shows a partially updated record (state 'Idle' or 'Terminated' *)
(* with a nonzero stateprogress).                                          *)
C5_LockDiscipline ==
    /\ [](~(WorkerInCS /\ ControlInCS))
    /\ [](WorkerInCS \/ ControlInCS => lock)
    /\ [][(results' # results \/ settings' # settings)
           => (WorkerInCS /\ lock)]_vars
    /\ [](response.kind = "settings"
            => ControlInCS /\ ~WorkerInCS /\ response.payload = settings)
    /\ [](response.kind = "results"
            => /\ ControlInCS /\ ~WorkerInCS /\ response.payload = results
               /\ (response.payload.state \in {"Idle", "Terminated"}
                     => response.payload.stateprogress = 0))

(* A get_results response is being sent while the worker, with all five    *)
(* rounds done, waits for the lock to publish its final values.            *)
C5_Witness ==
    /\ cpc = "sent_locked"
    /\ response.kind = "results"
    /\ response.payload.stateprogress = 100
    /\ wpc = "c_lock3"

(* The rounds of the current calibration are over: the worker is between  *)
(* the end of the for loop and the end of the command.                     *)
AfterRounds ==
    wpc \in {"meas", "c_lock3", "f_rx", "f_dig", "f_txm", "f_rxm",
             "f_state", "f_prog", "f_summary"}

(* The rounds of agc_log that reported failure.                            *)
FailedRounds == { k \in 1..Len(agc_log) : ~agc_log[k] }

(* C6: agc.run() is called at most N_ITER times per calibrate, never after *)
(* a round that reported failure; once the rounds are over the number of   *)
(* calls is k+1 if round k (counted from 0) was the first to fail and      *)
(* N_ITER if no round failed.                                              *)
C6_RoundCount ==
    /\ Len(agc_log) <= N_ITER
    /\ \A k \in FailedRounds : k = Len(agc_log)
    /\ AfterRounds =>
          IF FailedRounds = {}
            THEN Len(agc_log) = N_ITER
            ELSE \E k \in 0..(N_ITER - 1) :
                    /\ k + 1 \in FailedRounds
                    /\ \A j \in FailedRounds : j >= k + 1
                    /\ Len(agc_log) = k + 1

(* The rounds ended after round 2 (the third call) reported failure.       *)
C6_Witness ==
    /\ wpc = "meas"
    /\ agc_log = <<TRUE, TRUE, FALSE>>

(* A get_results response taken when the last command the worker executed  *)
(* was a calibrate whose AGC failed on round i, and no command is being    *)
(* executed.                                                               *)
AfterFailedCalibrate ==
    /\ response.kind = "results"
    /\ response.payload.state = "Idle"
    /\ wpc = "get"
    /\ ~agc_success

(* C7 as stated: after a calibrate whose AGC failed on round k, the first  *)
(* line of the summary get_results returns is "calibration run {k}:".      *)
C7_SummaryHeadIsRun ==
    AfterFailedCalibrate => response.payload.summary[1] = RunLabel(i)

(* C7, amended: after a calibrate whose AGC failed on round k, the summary *)
(* get_results returns starts with "Calibration was done:" and its second  *)
(* line is "calibration run {k}:", followed by the lines of that round's   *)
(* AGC text.                                                               *)
C7_SummaryAfterFailure ==
    AfterFailedCalibrate =>
        /\ response.payload.summary[1] = "Calibration was done:"
        /\ response.payload.summary[2] = RunLabel(i)
        /\ response.payload.summary = <<"Calibration was done:">> \o summary
        /\ \E out \in AgcOutcomes :
              summary = <<RunLabel(i)>> \o Split(out[2])

(* get_results after a calibrate that stopped on round 2.                  *)
C7_Witness ==
    /\ AfterFailedCalibrate
    /\ i = 2
    /\ response.payload.summary =
          <<"Calibration was done:", "calibration run 2:", "low", "no">>

(* C8: a calibrate the worker has dequeued leads, unless an exception      *)
(* abandons it, to the worker back at the top of its loop with state       *)
(* 'Idle' and stateprogress 0; the step that ends the command leaves       *)
(* exactly that; and between its first and its last critical section the   *)
(* state is 'RX Gain Calibration'.                                         *)
C8_BackToIdle ==
    /\ (wpc = "c_lock1")
          ~> (\/ (wpc = "get" /\ results.state = "Idle"
                               /\ results.stateprogress = 0)
              \/ wpc = "t_lock")
    /\ [][(wpc = "f_summary" /\ wpc' = "get")
           => (results'.state = "Idle" /\ results'.stateprogress = 0)]_vars
    /\ [](wpc \in {"c_prog0", "agc", "c_lock2", "c_prog", "meas", "c_lock3",
                    "f_rx", "f_dig", "f_txm", "f_rxm", "f_state"}
            => results.state = "RX Gain Calibration")

(* The worker is back at the top of its loop after a calibration of five   *)
(* successful rounds.                                                      *)
C8_Witness ==
    /\ wpc = "get"
    /\ agc_log = <<TRUE, TRUE, TRUE, TRUE, TRUE>>
    /\ results.state = "Idle"
    /\ results.stateprogress = 0
    /\ results.summary[2] = "calibration run 4:"

(* C9: the step that ends a calibrate command leaves settings.rx_gain and  *)
(* settings.digital_gain equal to what the hardware adapter reports after  *)
(* the last AGC round, and results.rx_median / results.tx_median equal to  *)
(* the RX / TX median of the one bundle meas.get_samples() returned after  *)
(* the rounds.                                                             *)
C9_FinalValues ==
    [][(wpc = "f_summary" /\ wpc' = "get")
       => /\ settings'.rx_gain = hw.rx_gain
          /\ settings'.digital_gain = hw.digital_gain
          /\ results'.rx_median = rx_median
          /\ results'.tx_median = tx_median
          /\ [rx_median |-> results'.rx_median,
              tx_median |-> results'.tx_median] \in Measurements]_vars

(* A calibration has completed and published gains that differ from the    *)
(* ones read at startup.                                                   *)
C9_Witness ==
    /\ wpc = "get"
    /\ results.summary[1] = "Calibration was done:"
    /\ settings.rx_gain = 1
    /\ settings.digital_gain = 2
    /\ results.rx_median = 1
    /\ results.tx_median = 2

(* A calibrate has ended: it completed, or the worker is in or past its    *)
(* finalizer.                                                              *)
CalibrateEnded ==
    \/ results.summary[1] = "Calibration was done:"
    \/ wpc \in {"t_lock", "t_state", "t_prog", "done"}

(* C10: no step of the control thread changes settings or results; the     *)
(* worker's handling of a dequeued trigger_run or reset changes nothing    *)
(* but the queue; settings.tx_gain and settings.dpddata always keep their  *)
(* startup values; and until a calibrate has ended every get_settings      *)
(* response is exactly the startup settings.                               *)
C10_ControlFrame ==
    /\ [][ControlNext => UNCHANGED <<settings, results>>]_vars
    /\ [][(wpc = "get" /\ command_queue # <<>>
             /\ Head(command_queue) \in {"trigger_run", "reset"}
             /\ command_queue' # command_queue)
           => UNCHANGED <<settings, results, lock, wvars, envvars>>]_vars
    /\ [](settings.tx_gain = BootTxGain /\ settings.dpddata = BootDpdData)
    /\ []((response.kind = "settings" /\ ~CalibrateEnded)
            => response.payload = BootSettings)

(* get_settings still answers the startup settings while the first         *)
(* calibration, which has already changed the hardware gains, waits to     *)
(* publish.                                                                *)
C10_Witness ==
    /\ response.kind = "settings"
    /\ response.payload = BootSettings
    /\ wpc = "c_lock3"
    /\ hw.rx_gain # BootRxGain
    /\ results.summary[1] = "DPD has not been calibrated yet"


(***************************************************************************)
(* C11  Dispatch of lines 210-230.  A request whose method is none of the  *)
(* six known names gets an error response with a non-empty diagnostic text *)
(* and enqueues no command: the queue is left as it was and the control    *)
(* thread never reaches a put with such a method.  A request with a known  *)
(* method never yields an error response.                                  *)
(***************************************************************************)
C11_UnknownMethodRejected ==
    /\ [](response.kind = "error" =>
            /\ method \notin {"trigger_run", "reset", "calibrate",
                               "set_setting", "get_settings", "get_results"}
            /\ response.payload # ""
            /\ cpc = "sent")
    /\ [](method \notin {"none", "trigger_run", "reset", "calibrate",
                          "get_settings", "get_results"} =>
            /\ response.kind = "error"
            /\ cpc = "sent")
    /\ [](cpc = "put" => method \in {"trigger_run", "reset", "calibrate"})
    /\ [][response'.kind = "error" /\ response.kind # "error" =>
            command_queue' = command_queue]_vars
    /\ [](\A k \in 1..Len(command_queue) :
            command_queue[k] \in {"trigger_run", "reset", "calibrate", "quit"})

C11_Witness ==
    /\ cpc = "sent"
    /\ method = "bogus"
    /\ response = [kind |-> "error", payload |-> "request not understood"]
    /\ command_queue = <<"calibrate">>
    /\ wpc = "agc"


(* engine_worker is about to make a call into the hardware back-end:       *)
(* agc.run() (165), meas.get_samples() (174), adapt.get_rxgain() (177) or  *)
(* adapt.get_digital_gain() (178).                                         *)
HardwareCall == wpc \in {"agc", "meas", "f_rx", "f_dig"}

(***************************************************************************)
(* C14  No critical section of engine_worker spans a hardware call: when   *)
(* the worker is about to call agc.run, meas.get_samples,                  *)
(* adapt.get_rxgain or adapt.get_digital_gain it does not hold the lock,   *)
(* so no get_settings or get_results handler waits for the lock while a    *)
(* hardware operation is in progress.                                      *)
(***************************************************************************)
C14_NoHardwareUnderLock ==
    HardwareCall => ~WorkerInCS


(* engine_worker is executing a calibrate command (lines 159-183).         *)
InCalibration ==
    wpc \in {"c_lock1", "c_state", "c_prog0", "agc", "c_lock2", "c_prog",
             "meas", "c_lock3", "f_rx", "f_dig", "f_txm", "f_rxm",
             "f_state", "f_prog", "f_summary"}

(* The control thread is inside a command_queue.put() that cannot return   *)
(* because the slot is taken (lines 212, 215, 228, 232).                   *)
BlockedInPut == cpc \in {"put", "quit_put"} /\ QueueFull(command_queue)

(* C15 as stated: the control thread is never blocked in an enqueue for    *)
(* the remaining duration of a running calibration, whatever the number of *)
(* commands submitted.                                                     *)
C15_NeverWaitsForCalibration == ~(BlockedInPut /\ InCalibration)

(***************************************************************************)
(* C15  The control thread blocks in an enqueue only while the single slot *)
(* is taken, and the block ends only in a step in which the worker, at the *)
(* top of its loop, dequeues the pending command.  With a command pending  *)
(* while a calibration is executing, the blocked control thread makes no   *)
(* step (serves no request) before that calibration is over.  A            *)
(* get_settings or get_results handler that has reached its with lock:     *)
(* during a calibration can take the lock whenever the worker is outside   *)
(* its critical sections.                                                  *)
(***************************************************************************)
C15_BlocksOnlyForSlot ==
    /\ [][(BlockedInPut /\ ~BlockedInPut') =>
            /\ wpc = "get"
            /\ command_queue' = Tail(command_queue)
            /\ cvars' = cvars]_vars
    /\ [][(BlockedInPut /\ InCalibration) => cvars' = cvars]_vars
    /\ [](cpc \in {"put", "quit_put"} /\ ~BlockedInPut
            => ENABLED (CtlPut \/ CtlQuitPut))
    /\ []((InCalibration /\ ~WorkerInCS /\ cpc \in {"gs_lock", "gr_lock"})
            => ENABLED CtlLock)

C15_Witness ==
    /\ BlockedInPut
    /\ wpc = "meas"
    /\ method = "reset"
    /\ command_queue = <<"trigger_run">>
    /\ results.stateprogress = 100


(* The worker has taken 'quit' out of the queue: the control thread has    *)
(* put it (line 232) and the slot is empty again.                          *)
QuitDequeued == cpc \in {"join", "exited"} /\ command_queue = <<>>

(***************************************************************************)
(* C16  No mid-run cancellation.  'quit' leaves the queue only in a step   *)
(* of the worker at the top of its loop, where results show 'Idle' with    *)
(* progress 0; a calibration is left only by its last write (Idle, 0 and   *)
(* the final summary published) or by an exception from a hardware call;   *)
(* and results.state goes from 'RX Gain Calibration' to 'Terminated' only  *)
(* in the finally clause of a worker that has not dequeued 'quit'.         *)
(***************************************************************************)
C16_NoMidRunCancel ==
    /\ [](wpc = "get" =>
            results.state = "Idle" /\ results.stateprogress = 0)
    /\ [][(command_queue = <<"quit">> /\ command_queue' # command_queue) =>
            /\ ~InCalibration
            /\ wpc = "get" /\ wpc' = "t_lock"
            /\ results.state = "Idle" /\ results.stateprogress = 0]_vars
    /\ [][(InCalibration /\ ~InCalibration') =>
            \/ /\ wpc = "f_summary" /\ wpc' = "get"
               /\ results'.state = "Idle"
               /\ results'.stateprogress = 0
               /\ results'.summary = <<"Calibration was done:">> \o summary
            \/ /\ HardwareCall /\ wpc' = "t_lock"]_vars
    /\ [][(results.state = "RX Gain Calibration"
            /\ results'.state = "Terminated") =>
            wpc = "t_state" /\ ~QuitDequeued]_vars
    /\ [](wpc \in {"t_lock", "t_state"} /\ QuitDequeued =>
            results.state = "Idle")

C16_Witness ==
    /\ wpc = "agc"
    /\ i = 2
    /\ results.state = "RX Gain Calibration"
    /\ command_queue = <<"quit">>
    /\ cpc = "join"


(***************************************************************************)
(* C17  'Terminated' is absorbing.  From a state whose results.state is    *)
(* 'Terminated' every step leaves it 'Terminated', leaves settings and the *)
(* rest of results as they are apart from the write of stateprogress 0     *)
(* that ends the finally clause, takes nothing out of the queue and        *)
(* starts no command; outside the worker's last critical section, and so   *)
(* in every get_results response, 'Terminated' comes with stateprogress 0. *)
(***************************************************************************)
C17_TerminatedAbsorbing ==
    /\ [][results.state = "Terminated" =>
            /\ results'.state = "Terminated"
            /\ settings' = settings
            /\ \/ results' = results
               \/ /\ wpc = "t_prog"
                  /\ results' = [results EXCEPT !.stateprogress = 0]
            /\ Len(command_queue') >= Len(command_queue)
            /\ wpc' \in {"t_prog", "done"}
            /\ ~InCalibration']_vars
    /\ [](results.state = "Terminated" => wpc \in {"t_prog", "done"})
    /\ []((results.state = "Terminated" /\ wpc = "done") =>
            results.stateprogress = 0)
    /\ [](wpc = "done" =>
            results.state = "Terminated" /\ ~ENABLED WorkerNext)
    /\ []((response.kind = "results"
            /\ response.payload.state = "Terminated") =>
            response.payload.stateprogress = 0)

C17_Witness ==
    /\ wpc = "done"
    /\ results.state = "Terminated"
    /\ results.stateprogress = 0
    /\ command_queue = <<"calibrate">>
    /\ cpc = "put"
    /\ method = "trigger_run"


(* At least one AGC round of the running calibration has been published    *)
(* (line 169 has run) and its local summary has not been replaced by a     *)
(* later round yet.                                                        *)
RoundPublished ==
    \/ wpc = "agc" /\ i > 0
    \/ wpc \in {"meas", "c_lock3"}

(***************************************************************************)
(* C19  After AGC round i of a calibration has completed, the worker has   *)
(* published under the lock both the progress of that round and            *)
(* results.summary, replaced by ["calibration run {i}:"] followed by the   *)
(* lines of that round's AGC text (the local summary of line 166), so that *)
(* a get_results before the next round completes carries that summary.     *)
(***************************************************************************)
C19_RoundSummaryPublished ==
    RoundPublished =>
        /\ results.stateprogress = Progress(Len(agc_log) - 1)
        /\ results.summary = summary


-----------------------------------------------------------------------------
(***************************************************************************)
(* The adaptation cycle of lines 263-354: a four-state loop                *)
(* measure -> model -> adapt -> report over the iteration counter i        *)
(* (cycle_i here, as i is the round index of engine_worker).  The server   *)
(* variables keep their startup values in this part.                       *)
(***************************************************************************)

(* Largest sample count the heuristic schedule asks for.                   *)
MaxRequired == 2

(* extStat.n_meas is only ever compared with a required count, so it is    *)
(* counted up to one past the largest required count and kept there.       *)
MaxCount == MaxRequired + 1

num_iter == 10

(* Heuristics.get_n_meas(i), line 278: a positive count fixed by the       *)
(* iteration index.                                                        *)
Required(n) == (n % MaxRequired) + 1

(* extStat.n_meas after one more capture has been accumulated.             *)
Accumulate(n) == IF n < MaxCount THEN n + 1 ELSE MaxCount

(* Variant of the loop condition of line 267 that is off by one.           *)
CycleRunningInclusive == cycle_i <= num_iter

(* while i < num_iter, line 267.                                           *)
CycleRunning == cycle_i < num_iter

(* Lines 271-283.  One capture is taken and handed to extStat.extract,     *)
(* which may or may not count it and returns tx, rx, phase_diff that are   *)
(* data or None; then the count is compared with get_n_meas(i).            *)
CycleMeasure ==
    /\ CycleRunning
    /\ state = "measure"
    /\ \E counted \in BOOLEAN, d \in {"none", "data"} :
        /\ extStat_n_meas' = IF counted THEN Accumulate(extStat_n_meas)
                                        ELSE extStat_n_meas
        /\ data' = d
    /\ n_meas' = Required(cycle_i)
    /\ state' = IF extStat_n_meas' >= n_meas' THEN "model" ELSE "measure"
    /\ UNCHANGED <<cycle_i, dpddata, predistorter, cycle_log>>
    /\ UNCHANGED servervars

(* Lines 286-290: the soft retry when tx, rx or phase_diff is None.        *)
CycleModelNoData ==
    /\ CycleRunning
    /\ state = "model"
    /\ data = "none"
    /\ cycle_log' = <<"No data to calculate model", 0>>
    /\ state' = "measure"
    /\ UNCHANGED <<cycle_i, n_meas, extStat_n_meas, data, dpddata,
                   predistorter>>
    /\ UNCHANGED servervars

(* Lines 292-295: model.train, new dpddata (tagged here with the iteration *)
(* that produced it), a fresh ExtractStatistic.                            *)
CycleModel ==
    /\ CycleRunning
    /\ state = "model"
    /\ data = "data"
    /\ dpddata' = cycle_i
    /\ extStat_n_meas' = 0
    /\ state' = "adapt"
    /\ UNCHANGED <<cycle_i, n_meas, data, predistorter, cycle_log>>
    /\ UNCHANGED servervars

(* Lines 298-300.                                                          *)
CycleAdapt ==
    /\ CycleRunning
    /\ state = "adapt"
    /\ predistorter' = dpddata
    /\ state' = "report"
    /\ UNCHANGED <<cycle_i, n_meas, extStat_n_meas, data, dpddata,
                   cycle_log>>
    /\ UNCHANGED servervars

(* Lines 303-343 and 347-348: a report that runs through.                  *)
CycleReport ==
    /\ CycleRunning
    /\ state = "report"
    /\ cycle_log' = <<"report", cycle_i>>
    /\ cycle_i' = cycle_i + 1
    /\ state' = "measure"
    /\ UNCHANGED <<n_meas, extStat_n_meas, data, dpddata, predistorter>>
    /\ UNCHANGED servervars

(* Variant of CycleReportFail in which the failed report is counted by the *)
(* inner handler and once more by the outer one.                           *)
CycleReportFailCountsTwice ==
    /\ CycleRunning
    /\ state = "report"
    /\ cycle_log' = <<"Report failed", cycle_i>>
    /\ cycle_i' = cycle_i + 2
    /\ state' = "measure"
    /\ UNCHANGED <<n_meas, extStat_n_meas, data, dpddata, predistorter>>
    /\ UNCHANGED servervars

(* Lines 304-348 with an exception somewhere in the try block of line 304: *)
(* the handler of lines 344-346 logs it, then lines 347-348 run.           *)
CycleReportFail ==
    /\ CycleRunning
    /\ state = "report"
    /\ cycle_log' = <<"Report failed", cycle_i>>
    /\ cycle_i' = cycle_i + 1
    /\ state' = "measure"
    /\ UNCHANGED <<n_meas, extStat_n_meas, data, dpddata, predistorter>>
    /\ UNCHANGED servervars

(* What an interrupted step may have done before it raised: a capture may  *)
(* have been counted (276), dpddata may have been assigned (293) and the   *)
(* predistorter may have been pushed (299).                                *)
CycleInterrupted ==
    /\ extStat_n_meas' \in
         IF state = "measure"
           THEN {extStat_n_meas, Accumulate(extStat_n_meas)}
           ELSE {extStat_n_meas}
    /\ dpddata' \in
         IF state = "model" /\ data = "data" THEN {dpddata, cycle_i}
                                            ELSE {dpddata}
    /\ predistorter' \in
         IF state = "adapt" THEN {predistorter, dpddata} ELSE {predistorter}

(* Variant of CycleRaise whose handler does not set state back.            *)
CycleRaiseKeepsState ==
    /\ CycleRunning
    /\ state \in {"measure", "model", "adapt"}
    /\ CycleInterrupted
    /\ cycle_log' = <<"failed", cycle_i>>
    /\ cycle_i' = cycle_i + 1
    /\ state' = state
    /\ UNCHANGED <<n_meas, data>>
    /\ UNCHANGED servervars

(* Variant of CycleRaise without the handler of lines 350-354: the         *)
(* exception leaves the loop.                                              *)
CycleRaiseEscapes ==
    /\ CycleRunning
    /\ state \in {"measure", "model", "adapt"}
    /\ CycleInterrupted
    /\ state' = "traceback"
    /\ UNCHANGED <<cycle_i, n_meas, data, cycle_log>>
    /\ UNCHANGED servervars

(* Lines 350-354: an exception out of the measure, model or adapt branch,  *)
(* among them the NameError of line 287 while tx is still undefined.       *)
CycleRaise ==
    /\ CycleRunning
    /\ state \in {"measure", "model", "adapt"}
    /\ CycleInterrupted
    /\ cycle_log' = <<"failed", cycle_i>>
    /\ cycle_i' = cycle_i + 1
    /\ state' = "measure"
    /\ UNCHANGED <<n_meas, data>>
    /\ UNCHANGED servervars

CycleNext ==
    \/ CycleMeasure
    \/ CycleModelNoData
    \/ CycleModel
    \/ CycleAdapt
    \/ CycleReport
    \/ CycleReportFail
    \/ CycleRaise

CycleSpec == Init /\ [][CycleNext]_vars

(* The main thread keeps running its loop.                                 *)
CycleFairSpec == CycleSpec /\ WF_vars(CycleNext)


(***************************************************************************)
(* C12  Whenever the loop is in state 'model' for iteration i, and so      *)
(* whenever line 292 calls model.train for iteration i, the count of       *)
(* extStat is at least Heuristics.get_n_meas(i) for that same i, which is  *)
(* also what n_meas holds.  This covers the model step reached again after *)
(* a soft retry and after an exception has sent the loop back to 'measure' *)
(* with i advanced.                                                        *)
(***************************************************************************)
C12_TrainHasEnoughSamples ==
    /\ [](state = "model" =>
            /\ extStat_n_meas >= Required(cycle_i)
            /\ n_meas = Required(cycle_i))
    /\ [][(state = "model" /\ dpddata' = cycle_i /\ dpddata # cycle_i) =>
            /\ extStat_n_meas >= Required(cycle_i)
            /\ data = "data"]_vars
    /\ [][state' = "model" =>
            (state \in {"measure", "model"} /\ cycle_i' = cycle_i)]_vars

(* A model trained in iteration 3, after iteration 2 ended in the outer    *)
(* handler with captures left in the accumulator.                          *)
C12_Witness ==
    /\ state = "adapt"
    /\ cycle_i = 3
    /\ dpddata = 3
    /\ n_meas = Required(3)
    /\ cycle_log = <<"failed", 2>>


(***************************************************************************)
(* C13  An exception anywhere in the report step does not halt the cycle:  *)
(* it is logged as 'Report failed' for the current iteration, i advances   *)
(* by exactly 1, the next state is 'measure' and nothing else changes,     *)
(* which is also what a report without exception does to i and state.      *)
(***************************************************************************)
C13_ReportFaultCounted ==
    /\ [][state = "report" =>
            /\ cycle_i' = cycle_i + 1
            /\ state' = "measure"
            /\ cycle_log' \in {<<"report", cycle_i>>,
                               <<"Report failed", cycle_i>>}
            /\ UNCHANGED <<n_meas, extStat_n_meas, data, dpddata,
                           predistorter>>]_vars
    /\ [][(cycle_log'[1] = "Report failed" /\ cycle_log' # cycle_log) =>
            /\ state = "report"
            /\ cycle_log' = <<"Report failed", cycle_i>>
            /\ cycle_i' = cycle_i + 1
            /\ state' = "measure"]_vars
    /\ [](state = "report" /\ cycle_i < num_iter => ENABLED CycleReportFail)

(* The report of iteration 4 failed after a model had been trained and     *)
(* pushed in that iteration.                                               *)
C13_Witness ==
    /\ cycle_log = <<"Report failed", 4>>
    /\ cycle_i = 5
    /\ state = "measure"
    /\ predistorter = 4


(***************************************************************************)
(* C18  An exception that escapes the measure, model or adapt step is      *)
(* caught by the handler of lines 349-354: it is logged as a failed        *)
(* iteration, i advances by exactly 1 and the next state is 'measure'.     *)
(* No exception ends the loop early: the loop never leaves its four        *)
(* states, and it can always take a further step while i < num_iter.       *)
(***************************************************************************)
C18_StepFaultIsolated ==
    /\ [](state \in {"measure", "model", "adapt", "report"})
    /\ [][(cycle_log' = <<"failed", cycle_i>> /\ cycle_log' # cycle_log) =>
            /\ state \in {"measure", "model", "adapt"}
            /\ cycle_i' = cycle_i + 1
            /\ state' = "measure"
            /\ UNCHANGED <<n_meas, data>>]_vars
    /\ [][(state \in {"measure", "model", "adapt"}
            /\ cycle_i' # cycle_i) =>
            /\ cycle_log' = <<"failed", cycle_i>>
            /\ cycle_i' = cycle_i + 1
            /\ state' = "measure"]_vars
    /\ [](cycle_i < num_iter =>
            /\ ENABLED CycleNext
            /\ state # "report" => ENABLED CycleRaise)
    /\ [](~ENABLED CycleNext => cycle_i = num_iter)

(* Iteration 9, the last of the budget, failed in the adapt step after the *)
(* new predistorter had been pushed.                                       *)
C18_Witness ==
    /\ cycle_log = <<"failed", 9>>
    /\ cycle_i = num_iter
    /\ state = "measure"
    /\ dpddata = 9
    /\ predistorter = 9


(* C20 as stated: whatever the collaborators do, the loop eventually exits *)
(* with i = num_iter.                                                      *)
C20_AlwaysTerminates == <>(cycle_i = num_iter)

(***************************************************************************)
(* C20  The counter i changes only by +1, only at the end of the report    *)
(* step or in the outer exception handler, and never exceeds num_iter; the *)
(* loop stops exactly when i = num_iter.  The loop either reaches          *)
(* i = num_iter or, from some point on, stays for ever in the measure and  *)
(* model states of one iteration: measure repeats while the accumulated    *)
(* count is below the required one, and measure and model alternate while  *)
(* the extracted data is missing.                                          *)
(***************************************************************************)
C20_BudgetBounded ==
    /\ [][cycle_i' = cycle_i \/ cycle_i' = cycle_i + 1]_vars
    /\ [][cycle_i' # cycle_i =>
            \/ state = "report"
            \/ cycle_log' = <<"failed", cycle_i>>]_vars
    /\ [](cycle_i <= num_iter)
    /\ [](ENABLED CycleNext <=> cycle_i < num_iter)
    /\ \/ <>(cycle_i = num_iter)
       \/ <>[](state \in {"measure", "model"} /\ cycle_i < num_iter)

(* The soft retry has been taken in iteration 1 and the model step is      *)
(* reached again without data, the accumulator long past the required      *)
(* count.                                                                  *)
C20_Witness ==
    /\ state = "model"
    /\ data = "none"
    /\ cycle_log = <<"No data to calculate model", 0>>
    /\ cycle_i = 1
    /\ extStat_n_meas = MaxCount

====
